---- MODULE Spec2Model ----
(***************************************************************************)
(* Model of the email-driven booking agent (src/src/booking_agent.py,      *)
(* src/src/email_util.py, src/src/email_processor.py, src/src/clerk_util.py). *)
(*                                                                         *)
(* Strings that the code inspects character by character (addresses) are   *)
(* sequences of one-character strings, so that the regular expressions and *)
(* str.lower() are computed, not assumed.                                  *)
(***************************************************************************)
EXTENDS Integers, Sequences, FiniteSets, TLC

VARIABLES
    entry,        \* which entry point runs: "ai" (process_email_with_ai), "lambda" (lambda_handler), "fn" (direct call of a reply function)
    pc,           \* position of the run inside its entry point
    env,          \* the BOOKING_EMAIL environment variable: [set, value]
    email,        \* parsed_email / email_data as returned by parse_email_from_s3
    messages,     \* the conversation list of process_email_with_ai
    iteration,    \* the for-loop variable of the tool-calling loop
    tcIdx,        \* index of the tool call being processed in the current batch
    nChat,        \* number of client.chat.completions.create calls made
    dispatched,   \* calendar gateway invocations, in order
    handed,       \* the text passed to send_ai_response_to_thread
    sent,         \* calls of send_email_via_ses, in order
    outcome       \* what the entry point returned (or raised)

vars == <<entry, pc, env, email, messages, iteration, tcIdx, nChat,
          dispatched, handed, sent, outcome>>

----------------------------------------------------------------------------
(* Bounds of the model *)

\* upper bound on the total number of addresses in From + To + Cc of an input email
MaxAddrs == 3

\* cap on chat-completion calls explored (the code's own bound is max_iterations)
MaxChatCalls == 6

\* upper bound on the number of lines of the agent's final text
MaxLines == 3

\* upper bound on the chat-completion answers scripted for one of two invocations
MaxRounds == 2

----------------------------------------------------------------------------
(* Characters and strings *)

UpperChars == <<"A","B","C","D","E","F","G","H","I","J","K","L","M",
                "N","O","P","Q","R","S","T","U","V","W","X","Y","Z">>
LowerChars == <<"a","b","c","d","e","f","g","h","i","j","k","l","m",
                "n","o","p","q","r","s","t","u","v","w","x","y","z">>

\* str.lower() on the upper-case letters
LowerTable ==
    [c \in {UpperChars[i] : i \in 1..26} |->
        LowerChars[CHOOSE i \in 1..26 : UpperChars[i] = c]]

\* str.lower() on one character
LowerChar(c) == IF c \in DOMAIN LowerTable THEN LowerTable[c] ELSE c

\* str.lower()
Lower(s) == [i \in 1..Len(s) |-> LowerChar(s[i])]

\* c in s
Contains(s, c) == \E i \in 1..Len(s) : s[i] = c

\* \s of the regular expressions, the characters str.strip() removes
IsSpace(c) == c \in {" ", "\n"}

NoMatch == [ok |-> FALSE, g |-> <<>>]

\* a match of <([^>]+)> starts at i: a "<", then at least one character other
\* than ">", then a ">"
IsAngleStart(s, i) ==
    /\ s[i] = "<"
    /\ i + 1 <= Len(s)
    /\ s[i + 1] # ">"
    /\ \E j \in (i + 2)..Len(s) : s[j] = ">"

\* the first ">" after the "<" at i
CloseAfter(s, i) ==
    CHOOSE j \in (i + 2)..Len(s) :
        /\ s[j] = ">"
        /\ \A b \in (i + 2)..(j - 1) : s[b] # ">"

\* re.search(r'<([^>]+)>', s) scanning from position i: the leftmost match;
\* the group is what lies between the brackets
RECURSIVE ScanAngle(_, _)
ScanAngle(s, i) ==
    IF i > Len(s) THEN NoMatch
    ELSE IF IsAngleStart(s, i)
         THEN [ok |-> TRUE, g |-> SubSeq(s, i + 1, CloseAfter(s, i) - 1)]
         ELSE ScanAngle(s, i + 1)

SearchAngle(s) == ScanAngle(s, 1)

\* last index of the run of non-space characters that starts at i
RunEnd(s, i) ==
    CHOOSE k \in i..Len(s) :
        /\ \A m \in i..k : ~IsSpace(s[m])
        /\ (k = Len(s) \/ IsSpace(s[k + 1]))

\* a match of ([^\s]+@[^\s]+) starts at i: a run of non-space characters that
\* holds an "@" with a character before and after it
IsTokenStart(s, i) ==
    /\ ~IsSpace(s[i])
    /\ \E p \in (i + 1)..(Len(s) - 1) :
         /\ s[p] = "@"
         /\ \A m \in i..(p + 1) : ~IsSpace(s[m])

\* re.search(r'([^\s]+@[^\s]+)', s) scanning from position i: the leftmost
\* match; both groups are greedy, so the match runs to the end of the run
RECURSIVE ScanToken(_, _)
ScanToken(s, i) ==
    IF i > Len(s) THEN NoMatch
    ELSE IF IsTokenStart(s, i)
         THEN [ok |-> TRUE, g |-> SubSeq(s, i, RunEnd(s, i))]
         ELSE ScanToken(s, i + 1)

SearchToken(s) == ScanToken(s, 1)

----------------------------------------------------------------------------
(* Configuration *)

BOOK_DEFAULT ==
    <<"b","o","o","k","@","b","h","a","a","n","g",".","c","o","m">>
BOOKDEV_DEFAULT ==
    <<"b","o","o","k","d","e","v","@","b","h","a","a","n","g",".","c","o","m">>

\* os.getenv('BOOKING_EMAIL', default)
Getenv(e, default) == IF e.set THEN e.value ELSE default

\* booking_email as resolved in booking_agent.py
AgentBookingEmail(e) == Getenv(e, BOOK_DEFAULT)

\* booking_email / from_address as resolved in email_util.py
UtilBookingEmail(e) == Getenv(e, BOOKDEV_DEFAULT)

----------------------------------------------------------------------------
(* Address cleaning and recipient computation *)

\* _extract_clean_email (booking_agent.py)
extract_clean_email(email_addr) ==
    IF email_addr = <<>> THEN <<>>
    ELSE LET angle == IF Contains(email_addr, "<") /\ Contains(email_addr, ">")
                      THEN SearchAngle(email_addr) ELSE NoMatch
         IN IF angle.ok THEN angle.g
            ELSE LET token == SearchToken(email_addr)
                 IN IF token.ok THEN token.g ELSE email_addr

\* x in list
InList(x, list) == \E i \in 1..Len(list) : list[i] = x

\* the condition under which the From loop of send_ai_response_to_thread appends
AgentKeepsFrom(clean_email, booking_email, all_participants) ==
    /\ clean_email # <<>>
    /\ Lower(clean_email) # Lower(booking_email)

AgentKeepsToCcNoFilter(clean_email, booking_email, all_participants) ==
    /\ clean_email # <<>>
    /\ ~InList(clean_email, all_participants)

\* the condition under which the To + Cc loop of send_ai_response_to_thread appends
AgentKeepsToCc(clean_email, booking_email, all_participants) ==
    /\ clean_email # <<>>
    /\ Lower(clean_email) # Lower(booking_email)
    /\ ~InList(clean_email, all_participants)

RECURSIVE AgentFromLoop(_, _, _)
AgentFromLoop(addrs, booking_email, acc) ==
    IF addrs = <<>> THEN acc
    ELSE LET clean_email == extract_clean_email(Head(addrs))
         IN AgentFromLoop(Tail(addrs), booking_email,
                IF AgentKeepsFrom(clean_email, booking_email, acc)
                THEN Append(acc, clean_email) ELSE acc)

RECURSIVE AgentToCcLoop(_, _, _)
AgentToCcLoop(addrs, booking_email, acc) ==
    IF addrs = <<>> THEN acc
    ELSE LET clean_email == extract_clean_email(Head(addrs))
         IN AgentToCcLoop(Tail(addrs), booking_email,
                IF AgentKeepsToCc(clean_email, booking_email, acc)
                THEN Append(acc, clean_email) ELSE acc)

\* all_participants of send_ai_response_to_thread
AgentParticipants(parsed_email, booking_email) ==
    AgentToCcLoop(parsed_email.to \o parsed_email.cc, booking_email,
                  AgentFromLoop(parsed_email.from, booking_email, <<>>))

\* the two regular expressions of get_original_sender_from_email on one header value
SenderMatch(s) ==
    LET angle == SearchAngle(s)
    IN IF angle.ok THEN angle ELSE SearchToken(s)

\* get_original_sender_from_email (email_util.py)
get_original_sender_from_email(email_data) ==
    LET by_return_path == IF email_data.return_path # <<>>
                          THEN SenderMatch(email_data.return_path) ELSE NoMatch
    IN IF by_return_path.ok THEN by_return_path.g
       ELSE LET by_from == IF email_data.from # <<>>
                           THEN SenderMatch(email_data.from[1]) ELSE NoMatch
            IN IF by_from.ok THEN by_from.g ELSE <<>>

\* should_reply_to_email (email_util.py)
should_reply_to_email(email_data, e) ==
    Lower(get_original_sender_from_email(email_data)) # Lower(UtilBookingEmail(e))

\* the inline cleaning of one To/Cc entry in reply_to_email_thread
UtilClean(email_addr) ==
    LET match == IF Contains(email_addr, "<") /\ Contains(email_addr, ">")
                 THEN SearchAngle(email_addr)
                 ELSE IF Contains(email_addr, " ")
                      THEN SearchToken(email_addr)
                      ELSE NoMatch
    IN IF match.ok THEN match.g ELSE email_addr

\* the condition under which reply_to_email_thread adds the original sender
UtilKeepsSender(original_sender, booking_email) ==
    /\ original_sender # <<>>
    /\ Lower(original_sender) # Lower(booking_email)

\* the condition under which the To + Cc loop of reply_to_email_thread appends
UtilKeepsToCc(clean_email, booking_email, all_participants) ==
    /\ Lower(clean_email) # Lower(booking_email)
    /\ ~InList(clean_email, all_participants)

RECURSIVE UtilToCcLoop(_, _, _)
UtilToCcLoop(addrs, booking_email, acc) ==
    IF addrs = <<>> THEN acc
    ELSE LET clean_email == UtilClean(Head(addrs))
         IN UtilToCcLoop(Tail(addrs), booking_email,
                IF UtilKeepsToCc(clean_email, booking_email, acc)
                THEN Append(acc, clean_email) ELSE acc)

\* all_participants of reply_to_email_thread
UtilParticipants(email_data, booking_email) ==
    LET original_sender == get_original_sender_from_email(email_data)
    IN UtilToCcLoop(email_data.to \o email_data.cc, booking_email,
                    IF UtilKeepsSender(original_sender, booking_email)
                    THEN <<original_sender>>
                    ELSE <<>>)

\* the call of ses_client.send_raw_email made by send_email_via_ses
\* (from_address defaults to BOOKING_EMAIL), with the transport's verdict
SesCall(by, to_addresses, e, ok) ==
    [by |-> by, source |-> UtilBookingEmail(e), to |-> to_addresses, ok |-> ok]

----------------------------------------------------------------------------
(* Inputs *)

EmptyEmail == [from |-> <<>>, to |-> <<>>, cc |-> <<>>, return_path |-> <<>>]

EnvUnset == [set |-> FALSE, value |-> <<>>]
EnvSet == [set |-> TRUE, value |-> <<"b","@","v">>]
Envs == {EnvUnset, EnvSet}

UserBare == <<"a","@","x">>
UserUpper == <<"A","@","x">>
UserNamed == <<"N"," ","<","a","@","x",">">>
UserReturnPath == <<"<","a","@","x",">">>

\* the assistant's address as it may appear in a header: bare, and "Name <addr>"
AssistantBare(e) ==
    IF e.set THEN <<"b","@","v">>
    ELSE <<"B","o","o","k","@","b","h","a","a","n","g",".","c","o","m">>
AssistantNamed(e) ==
    IF e.set THEN <<"N"," ","<","B","@","V",">">>
    ELSE <<"N"," ","<","B","o","o","k","D","e","v","@","b","h","a","a","n","g",".","c","o","m",">">>
AssistantReturnPath(e) ==
    IF e.set THEN <<"<","b","@","v",">">>
    ELSE <<"<","b","o","o","k","d","e","v","@","b","h","a","a","n","g",".","c","o","m",">">>

RawAddrs(e) == {UserBare, UserUpper, UserNamed, AssistantBare(e), AssistantNamed(e)}
ReturnPaths(e) == {<<>>, UserReturnPath, AssistantReturnPath(e)}

\* sequences over S of length at most n
SeqsUpTo(S, n) == UNION {[1..k -> S] : k \in 0..n}

\* parsed emails whose From, To and Cc hold at most MaxAddrs addresses in all
InputEmails(e) ==
    {[from |-> SubSeq(s, 1, i), to |-> SubSeq(s, i + 1, j),
      cc |-> SubSeq(s, j + 1, Len(s)), return_path |-> r] :
        <<s, i, j, r>> \in
            {q \in SeqsUpTo(RawAddrs(e), MaxAddrs) \X (0..MaxAddrs) \X (0..MaxAddrs)
                   \X ReturnPaths(e) :
                q[2] <= q[3] /\ q[3] <= Len(q[1])}}

\* the emails the two pipelines are run on
PipelineEmails(en, e) ==
    {[from |-> <<UserBare>>, to |-> <<AssistantBare(e)>>, cc |-> <<>>, return_path |-> <<>>],
     [from |-> <<AssistantNamed(e)>>, to |-> <<UserBare>>, cc |-> <<>>, return_path |-> UserReturnPath],
     [from |-> <<AssistantBare(e)>>, to |-> <<AssistantBare(e)>>, cc |-> <<>>, return_path |-> <<>>]}
    \cup (IF en = "lambda"
          THEN {[from |-> <<>>, to |-> <<AssistantBare(e)>>, cc |-> <<UserBare>>, return_path |-> <<>>],
                [from |-> <<AssistantNamed(e)>>, to |-> <<UserNamed>>, cc |-> <<>>, return_path |-> <<>>]}
          ELSE {})

----------------------------------------------------------------------------
(* Conversation *)

\* max_iterations of the tool-calling loop
max_iterations == 5

NoneContent == "<None>"
NotHanded == "<not handed>"
Apology == "Sorry, I encountered an error processing your request"

KnownTools == {"get_availability", "book_event", "cancel_event"}

\* what a calendar gateway operation does when invoked: returns a value,
\* returns the error value {"error": "User not found"}, or raises
GatewayOutcomes == {"value", "user_not_found", "raise"}

\* the scripted answers of the chat-completion provider; a tool call's args is
\* "ok" (valid JSON holding the required keys), "missing" (valid JSON without a
\* required key) or "bad_json" (not valid JSON)
ModelResponses ==
    {[content |-> "Hello", tool_calls |-> <<>>],
     [content |-> NoneContent, tool_calls |-> <<>>],
     [content |-> NoneContent,
      tool_calls |-> <<[name |-> "get_availability", args |-> "ok", owner_email |-> "o1", event_id |-> ""]>>],
     [content |-> "Checking",
      tool_calls |-> <<[name |-> "book_event", args |-> "missing", owner_email |-> "", event_id |-> ""],
                       [name |-> "cancel_event", args |-> "ok", owner_email |-> "o2", event_id |-> "e1"]>>],
     [content |-> "Checking",
      tool_calls |-> <<[name |-> "other_tool", args |-> "ok", owner_email |-> "o1", event_id |-> ""],
                       [name |-> "book_event", args |-> "ok", owner_email |-> "o2", event_id |-> ""],
                       [name |-> "get_availability", args |-> "bad_json", owner_email |-> "", event_id |-> ""]>>]}

\* the call ids the provider gives the calls of its n-th response
CallId(n, k) == 10 * n + k

SystemTurn == [role |-> "system", content |-> "system_prompt", tool_calls |-> <<>>, tool_call_id |-> 0]
UserTurn(parsed_email) ==
    [role |-> "user", content |-> parsed_email, tool_calls |-> <<>>, tool_call_id |-> 0]

InitialConversation_UserOnly(parsed_email) == <<UserTurn(parsed_email)>>

\* messages as process_email_with_ai seeds it before the loop
InitialConversation(parsed_email) == <<SystemTurn, UserTurn(parsed_email)>>

\* response.choices[0].message of the n-th chat-completion call
AssistantMessage(r, n) ==
    [role |-> "assistant", content |-> r.content,
     tool_calls |-> [k \in 1..Len(r.tool_calls) |->
                        [id |-> CallId(n, k), name |-> r.tool_calls[k].name,
                         args |-> r.tool_calls[k].args,
                         owner_email |-> r.tool_calls[k].owner_email,
                         event_id |-> r.tool_calls[k].event_id]],
     tool_call_id |-> 0]

\* the dict appended for one tool call: {"role": "tool", "tool_call_id", "content"}
ToolTurn(id, error) ==
    [role |-> "tool", content |-> [error |-> error], tool_calls |-> <<>>, tool_call_id |-> id]

\* json.loads(tool_call.function.arguments) raises
JsonLoadsRaises(tool_call) == tool_call.args = "bad_json"

\* reading tool_args["owner_email"] and the other required keys raises KeyError
RequiredKeyMissing(tool_call) == tool_call.args = "missing"

\* the for loop has another iteration to run
LoopHasNextUnbounded(it) == TRUE

LoopHasNext(it) == it < max_iterations

\* where the run goes at the top of the for loop
LoopTarget(it) == IF LoopHasNext(it) THEN "call_model" ELSE "finish"

\* the tool call of the batch processed at position idx
CurrentCallReversed(batch, idx) == batch[Len(batch) + 1 - idx]

CurrentCall(batch, idx) == batch[idx]

\* where the run goes after a response without tool calls (break)
AfterFinalAnswerContinue(it) == "call_model"

AfterFinalAnswer(it) == "finish"

\* messages[-1] is an object with a .content attribute (a dict has none)
HasContentAttribute(m) == m.role = "assistant"

Outcome(kind, error, email_response, auto_reply_sent) ==
    [action |-> kind, error |-> error, email_response |-> email_response,
     auto_reply_sent |-> auto_reply_sent]

NoOutcome == Outcome("none", "", NotHanded, FALSE)

\* the except branch of process_email_with_ai
ErrorOutcome(msg) == Outcome("error", msg, Apology, FALSE)

SendFailureOutcome_Processed(send_result, final_response) ==
    Outcome("processed", "", final_response, FALSE)

SendFailureOutcomeLosesText(send_result, final_response) ==
    Outcome("error", send_result.error, Apology, FALSE)

\* the return value of process_email_with_ai when send_result['success'] is false
SendFailureOutcome(send_result, final_response) ==
    Outcome("error", send_result.error, final_response, FALSE)

----------------------------------------------------------------------------
(* Calendar gateway (clerk_util.py) *)

\* what the services behind one gateway invocation answer: the identity
\* directory (Clerk users), the credential store (Clerk OAuth tokens) and the
\* calendar provider (Google Calendar)
Worlds ==
    [directory : {"found", "none", "error"},
     credential : {"token", "none", "error"},
     provider : {"ok", "404", "500", "timeout"}]

\* str(e) of the exception a failed HTTP request raises
StrE(status) ==
    CASE status = "404" -> "404 Client Error"
      [] status = "500" -> "500 Server Error"
      [] OTHER -> "Read timed out"

\* get_user_by_email: the user id, None, or an exception
get_user_by_email(email_address, w) ==
    [raised |-> w.directory = "error",
     user_id |-> IF w.directory = "found" THEN "user_id" ELSE "None",
     error |-> IF w.directory = "error"
               THEN <<"Failed to fetch user by email: ", StrE("500")>> ELSE <<>>]

\* get_google_oauth_token_low_level: the token, or None (also on any exception)
get_google_oauth_token_low_level(w) ==
    IF w.credential = "token" THEN "token" ELSE "None"

NoToken == "Could not retrieve Google OAuth token for user"

GatewayValue(calls) == [kind |-> "value", error |-> <<>>, calls |-> calls]
GatewayRaised(error, calls) == [kind |-> "raised", error |-> error, calls |-> calls]

\* get_availability_low_level: token, timezone (failures fall back to UTC),
\* calendar, events
get_availability_low_level(w) ==
    IF get_google_oauth_token_low_level(w) = "None"
    THEN GatewayRaised(<<"Failed to fetch calendar availability: ", NoToken>>, <<"credential">>)
    ELSE IF w.provider # "ok"
         THEN GatewayRaised(<<"Failed to fetch calendar availability: ", StrE(w.provider)>>,
                            <<"credential", "provider", "provider">>)
         ELSE GatewayValue(<<"credential", "provider", "provider", "provider">>)

book_event_low_level_CachedToken(w) ==
    IF w.provider # "ok"
    THEN GatewayRaised(<<"Failed to book event: ", StrE(w.provider)>>, <<"provider", "provider">>)
    ELSE GatewayValue(<<"provider", "provider">>)

\* book_event_low_level: token, timezone (failures fall back to UTC), insert
book_event_low_level(w) ==
    IF get_google_oauth_token_low_level(w) = "None"
    THEN GatewayRaised(<<"Failed to book event: ", NoToken>>, <<"credential">>)
    ELSE IF w.provider # "ok"
         THEN GatewayRaised(<<"Failed to book event: ", StrE(w.provider)>>,
                            <<"credential", "provider", "provider">>)
         ELSE GatewayValue(<<"credential", "provider", "provider">>)

cancel_event_low_level_NoEventNotFound(event_id, w) ==
    IF get_google_oauth_token_low_level(w) = "None"
    THEN GatewayRaised(<<"Failed to cancel event: ", NoToken>>, <<"credential">>)
    ELSE IF w.provider # "ok"
         THEN GatewayRaised(<<"Failed to cancel event">>, <<"credential", "provider">>)
         ELSE GatewayValue(<<"credential", "provider">>)

\* cancel_event_low_level: token, delete; a 404 of the delete is reported as
\* the event not being found
cancel_event_low_level(event_id, w) ==
    IF get_google_oauth_token_low_level(w) = "None"
    THEN GatewayRaised(<<"Failed to cancel event: ", NoToken>>, <<"credential">>)
    ELSE IF w.provider = "404"
         THEN GatewayRaised(<<"Event with ID ", event_id, " not found">>,
                            <<"credential", "provider">>)
         ELSE IF w.provider # "ok"
              THEN GatewayRaised(<<"Failed to cancel event: ", StrE(w.provider)>>,
                                 <<"credential", "provider">>)
              ELSE GatewayValue(<<"credential", "provider">>)

\* the error value the email-level operations return for an unknown owner
UserNotFound(owner_email) ==
    [kind |-> "error_value", error |-> <<"User not found">>, calls |-> <<"directory">>]

\* the body shared by get_availability, book_event and cancel_event: look the
\* owner up, return the error value when there is none, else run the low-level
\* operation; every exception is raised again with the operation's prefix
ByOwnerEmail(prefix, owner_email, low_level, w) ==
    LET user == get_user_by_email(owner_email, w)
    IN IF user.raised
       THEN GatewayRaised(<<prefix, owner_email, ": ">> \o user.error, <<"directory">>)
       ELSE IF user.user_id = "None"
            THEN UserNotFound(owner_email)
            ELSE IF low_level.kind = "raised"
                 THEN GatewayRaised(<<prefix, owner_email, ": ">> \o low_level.error,
                                    <<"directory">> \o low_level.calls)
                 ELSE GatewayValue(<<"directory">> \o low_level.calls)

get_availability(owner_email, w) ==
    ByOwnerEmail("Failed to get availability for ", owner_email,
                 get_availability_low_level(w), w)

book_event_NoneNotChecked(owner_email, w) ==
    LET user == get_user_by_email(owner_email, w)
        low_level == book_event_low_level(w)
    IN IF user.raised
       THEN GatewayRaised(<<"Failed to book event for ", owner_email, ": ">> \o user.error,
                          <<"directory">>)
       ELSE IF low_level.kind = "raised"
            THEN GatewayRaised(<<"Failed to book event for ", owner_email, ": ">> \o low_level.error,
                               <<"directory">> \o low_level.calls)
            ELSE GatewayValue(<<"directory">> \o low_level.calls)

book_event(owner_email, w) ==
    ByOwnerEmail("Failed to book event for ", owner_email, book_event_low_level(w), w)

cancel_event(owner_email, event_id, w) ==
    ByOwnerEmail("Failed to cancel event for ", owner_email,
                 cancel_event_low_level(event_id, w), w)

\* the gateway operation the loop body invokes for a tool call
GatewayCall(tool_call, w) ==
    CASE tool_call.name = "get_availability" -> get_availability(tool_call.owner_email, w)
      [] tool_call.name = "book_event" -> book_event(tool_call.owner_email, w)
      [] OTHER -> cancel_event(tool_call.owner_email, tool_call.event_id, w)

InvocationsWithRetry(tool_call, w) ==
    LET invocation == [id |-> tool_call.id, name |-> tool_call.name,
                       owner_email |-> tool_call.owner_email,
                       event_id |-> tool_call.event_id,
                       world |-> w, result |-> GatewayCall(tool_call, w)]
    IN IF invocation.result.kind = "raised"
       THEN <<invocation, invocation>> ELSE <<invocation>>

\* the gateway invocations the loop body makes for one tool call: the operation
\* named by the call, once, with the arguments of the call
Invocations(tool_call, w) ==
    <<[id |-> tool_call.id, name |-> tool_call.name,
       owner_email |-> tool_call.owner_email,
       event_id |-> tool_call.event_id,
       world |-> w, result |-> GatewayCall(tool_call, w)]>>

\* the services' answers behind each outcome the pipeline is run against
WorldOf(g) ==
    CASE g = "value" -> [directory |-> "found", credential |-> "token", provider |-> "ok"]
      [] g = "user_not_found" -> [directory |-> "none", credential |-> "token", provider |-> "ok"]
      [] OTHER -> [directory |-> "found", credential |-> "token", provider |-> "500"]

----------------------------------------------------------------------------
(* Reply dispatch *)

send_ai_response_to_thread_NoEmptyCheck(parsed_email, e) ==
    LET all_participants == AgentParticipants(parsed_email, AgentBookingEmail(e))
    IN {[calls |-> <<SesCall("send_ai_response_to_thread", all_participants, e, ok)>>,
         success |-> ok,
         error |-> IF ok THEN "" ELSE "ses error"] : ok \in BOOLEAN}

\* send_ai_response_to_thread: the results it can return, each with the
\* send_email_via_ses calls it made
send_ai_response_to_thread(parsed_email, e) ==
    LET all_participants == AgentParticipants(parsed_email, AgentBookingEmail(e))
    IN IF all_participants = <<>>
       THEN {[calls |-> <<>>, success |-> FALSE, error |-> "No valid recipients found"]}
       ELSE {[calls |-> <<SesCall("send_ai_response_to_thread", all_participants, e, ok)>>,
              success |-> ok,
              error |-> IF ok THEN "" ELSE "ses error"] : ok \in BOOLEAN}

\* reply_to_email_thread: the results it can return, each with the
\* send_email_via_ses calls it made
reply_to_email_thread(email_data, e) ==
    LET all_participants == UtilParticipants(email_data, UtilBookingEmail(e))
    IN IF all_participants = <<>>
       THEN {[calls |-> <<>>, success |-> FALSE, error |-> "No valid recipients found"]}
       ELSE {[calls |-> <<SesCall("reply_to_email_thread", all_participants, e, ok)>>,
              success |-> ok,
              error |-> IF ok THEN "" ELSE "ses error"] : ok \in BOOLEAN}

----------------------------------------------------------------------------
(* The two entry points *)

Init ==
    /\ entry \in {"ai", "lambda"}
    /\ pc = "start"
    /\ env \in Envs
    /\ email = EmptyEmail
    /\ messages = <<>>
    /\ iteration = 0
    /\ tcIdx = 0
    /\ nChat = 0
    /\ dispatched = <<>>
    /\ handed = NotHanded
    /\ sent = <<>>
    /\ outcome = NoOutcome

RaiseSwallowedOnRead(msg) ==
    /\ pc' = IF pc = "start" THEN (IF entry = "ai" THEN "init" ELSE "context") ELSE "returned"
    /\ outcome' = IF entry = "ai" THEN ErrorOutcome(msg)
                  ELSE Outcome("raised", msg, NotHanded, FALSE)

\* an exception leaves the entry point: process_email_with_ai catches it and
\* returns an error outcome, lambda_handler has no handler and raises
Raise(msg) ==
    /\ pc' = "returned"
    /\ outcome' = IF entry = "ai" THEN ErrorOutcome(msg)
                  ELSE Outcome("raised", msg, NotHanded, FALSE)

\* s3_client.get_object(...).read().decode(), then parse_email_from_s3
ReadAndParse ==
    /\ pc = "start"
    /\ entry \in {"ai", "lambda"}
    /\ \/ /\ \E fault \in {"read failed", "parse failed"} : Raise(fault)
          /\ UNCHANGED email
       \/ /\ email' \in PipelineEmails(entry, env)
          /\ pc' = IF entry = "ai" THEN "init" ELSE "context"
          /\ UNCHANGED outcome
    /\ UNCHANGED <<entry, env, messages, iteration, tcIdx, nChat, dispatched, handed, sent>>

\* the OpenAI client is built and the conversation is seeded
InitConversation ==
    /\ pc = "init"
    /\ \/ /\ Raise("OPENAI_API_KEY not found in secrets")
          /\ UNCHANGED <<messages, iteration>>
       \/ /\ messages' = InitialConversation(email)
          /\ iteration' = 0
          /\ pc' = LoopTarget(0)
          /\ UNCHANGED outcome
    /\ UNCHANGED <<entry, env, email, tcIdx, nChat, dispatched, handed, sent>>

\* client.chat.completions.create and the handling of its answer
ChatCompletion ==
    /\ pc = "call_model"
    /\ nChat < MaxChatCalls
    /\ nChat' = nChat + 1
    /\ \/ /\ Raise("chat completion failed")
          /\ UNCHANGED <<messages, tcIdx>>
       \/ \E r \in ModelResponses :
            /\ messages' = Append(messages, AssistantMessage(r, nChat + 1))
            /\ IF r.tool_calls # <<>>
               THEN pc' = "executing" /\ tcIdx' = 1
               ELSE pc' = AfterFinalAnswer(iteration) /\ tcIdx' = 0
            /\ UNCHANGED outcome
    /\ UNCHANGED <<entry, env, email, iteration, dispatched, handed, sent>>

\* assistant_message.tool_calls of the batch being processed
CurrentBatch == messages[Len(messages) - (tcIdx - 1)].tool_calls

\* one pass of the "for tool_call in assistant_message.tool_calls" body
DispatchToolCall ==
    /\ pc = "executing"
    /\ LET tool_call == CurrentCall(CurrentBatch, tcIdx)
           invoked == tool_call.name \in KnownTools /\ ~RequiredKeyMissing(tool_call)
       IN IF JsonLoadsRaises(tool_call)
          THEN /\ Raise("JSONDecodeError")
               /\ UNCHANGED <<messages, iteration, tcIdx, dispatched>>
          ELSE /\ IF invoked
                  THEN \E g \in GatewayOutcomes :
                         LET result == GatewayCall(tool_call, WorldOf(g))
                         IN /\ messages' = Append(messages, ToolTurn(tool_call.id, result.error))
                            /\ dispatched' = dispatched \o Invocations(tool_call, WorldOf(g))
                  ELSE /\ messages' = Append(messages, ToolTurn(tool_call.id,
                              IF tool_call.name \notin KnownTools
                              THEN <<"Unknown tool: ", tool_call.name>>
                              ELSE <<"KeyError">>))
                       /\ UNCHANGED dispatched
               /\ IF tcIdx = Len(CurrentBatch)
                  THEN /\ iteration' = iteration + 1
                       /\ tcIdx' = 0
                       /\ pc' = LoopTarget(iteration + 1)
                  ELSE /\ tcIdx' = tcIdx + 1
                       /\ UNCHANGED <<iteration, pc>>
               /\ UNCHANGED outcome
    /\ UNCHANGED <<entry, env, email, nChat, handed, sent>>

\* after the loop: final_response = messages[-1].content, the reply is sent
\* and the outcome is returned
Finish ==
    /\ pc = "finish"
    /\ LET last == messages[Len(messages)]
       IN IF ~HasContentAttribute(last)
          THEN /\ Raise("AttributeError: 'dict' object has no attribute 'content'")
               /\ UNCHANGED <<handed, sent>>
          ELSE /\ handed' = last.content
               /\ IF last.content = NoneContent
                  THEN /\ Raise("AttributeError: 'NoneType' object has no attribute 'strip'")
                       /\ UNCHANGED sent
                  ELSE \E send_result \in send_ai_response_to_thread(email, env) :
                         /\ sent' = sent \o send_result.calls
                         /\ pc' = "returned"
                         /\ outcome' = IF send_result.success
                                       THEN Outcome("processed", "", last.content, FALSE)
                                       ELSE SendFailureOutcome(send_result, last.content)
    /\ UNCHANGED <<entry, env, email, messages, iteration, tcIdx, nChat, dispatched>>

\* extract_conversation_context: determine_thread_starter indexes from[0]
\* unless it found the starter in the quoted history
LambdaContext ==
    /\ pc = "context"
    /\ \/ /\ email.from = <<>>
          /\ Raise("IndexError: list index out of range")
       \/ /\ pc' = "auto_reply"
          /\ UNCHANGED outcome
    /\ UNCHANGED <<entry, env, email, messages, iteration, tcIdx, nChat, dispatched, handed, sent>>

\* the auto-reply check of lambda_handler and its return value
LambdaAutoReply ==
    /\ pc = "auto_reply"
    /\ IF should_reply_to_email(email, env)
       THEN \E reply_result \in reply_to_email_thread(email, env) :
                sent' = sent \o reply_result.calls
       ELSE UNCHANGED sent
    /\ pc' = "returned"
    /\ outcome' = Outcome("200", "", NotHanded, should_reply_to_email(email, env))
    /\ UNCHANGED <<entry, env, email, messages, iteration, tcIdx, nChat, dispatched, handed>>

Next ==
    \/ ReadAndParse
    \/ InitConversation
    \/ ChatCompletion
    \/ DispatchToolCall
    \/ Finish
    \/ LambdaContext
    \/ LambdaAutoReply

Spec == Init /\ [][Next]_vars

----------------------------------------------------------------------------
(* The reply functions applied to arbitrary parsed emails *)

InitFn ==
    /\ entry = "fn"
    /\ pc = "start"
    /\ env \in Envs
    /\ email \in InputEmails(env)
    /\ messages = <<>>
    /\ iteration = 0
    /\ tcIdx = 0
    /\ nChat = 0
    /\ dispatched = <<>>
    /\ handed = NotHanded
    /\ sent = <<>>
    /\ outcome = NoOutcome

FnSendAIResponse ==
    /\ pc = "start"
    /\ entry = "fn"
    /\ \E send_result \in send_ai_response_to_thread(email, env) :
         /\ sent' = sent \o send_result.calls
         /\ outcome' = Outcome(IF send_result.success THEN "sent" ELSE "not sent",
                               send_result.error, "Hello", FALSE)
    /\ handed' = "Hello"
    /\ pc' = "returned"
    /\ UNCHANGED <<entry, env, email, messages, iteration, tcIdx, nChat, dispatched>>

FnReplyToThread ==
    /\ pc = "start"
    /\ entry = "fn"
    /\ \E reply_result \in reply_to_email_thread(email, env) :
         /\ sent' = sent \o reply_result.calls
         /\ outcome' = Outcome(IF reply_result.success THEN "sent" ELSE "not sent",
                               reply_result.error, NotHanded, FALSE)
    /\ pc' = "returned"
    /\ UNCHANGED <<entry, env, email, messages, iteration, tcIdx, nChat, dispatched, handed>>

\* should_reply_to_email applied to the parsed email
FnShouldReply ==
    /\ pc = "start"
    /\ entry = "fn"
    /\ outcome' = Outcome("should_reply", "", NotHanded, should_reply_to_email(email, env))
    /\ pc' = "returned"
    /\ UNCHANGED <<entry, env, email, messages, iteration, tcIdx, nChat, dispatched, handed, sent>>

NextFn ==
    \/ FnSendAIResponse
    \/ FnReplyToThread
    \/ FnShouldReply

SpecRecipients == InitFn /\ [][NextFn]_vars

----------------------------------------------------------------------------
(* The text and the threading headers of a reply *)

\* str.upper() on the lower-case letters
UpperTable ==
    [c \in {LowerChars[i] : i \in 1..26} |->
        UpperChars[CHOOSE i \in 1..26 : LowerChars[i] = c]]

\* str.upper()
Upper(s) == [i \in 1..Len(s) |-> IF s[i] \in DOMAIN UpperTable THEN UpperTable[s[i]] ELSE s[i]]

\* str.strip()
Strip(s) ==
    LET kept == {i \in 1..Len(s) : ~IsSpace(s[i])}
    IN IF kept = {} THEN <<>>
       ELSE SubSeq(s, CHOOSE i \in kept : \A j \in kept : i <= j,
                      CHOOSE i \in kept : \A j \in kept : j <= i)

\* str.split('\n')
RECURSIVE SplitLines(_)
SplitLines(s) ==
    IF ~Contains(s, "\n") THEN <<s>>
    ELSE LET i == CHOOSE k \in 1..Len(s) : s[k] = "\n" /\ \A m \in 1..(k - 1) : s[m] # "\n"
         IN <<SubSeq(s, 1, i - 1)>> \o SplitLines(SubSeq(s, i + 1, Len(s)))

\* '\n'.join(lines)
RECURSIVE JoinLines(_)
JoinLines(lines) ==
    IF lines = <<>> THEN <<>>
    ELSE IF Len(lines) = 1 THEN lines[1]
         ELSE lines[1] \o <<"\n">> \o JoinLines(Tail(lines))

\* str.startswith(prefix)
StartsWith(s, prefix) == Len(s) >= Len(prefix) /\ SubSeq(s, 1, Len(prefix)) = prefix

TO_LABEL == <<"T", "O", ":">>

\* re.search(r'TO:\s*([^\s]+@[^\s]+)', to_line, re.IGNORECASE) finds a match:
\* somewhere the label, then whitespace, then a run of non-space characters
\* holding an "@" with a character before and after it
SearchTo(to_line) ==
    \E p \in 1..(Len(to_line) - 2) :
        /\ Upper(SubSeq(to_line, p, p + 2)) = TO_LABEL
        /\ \E q \in (p + 3)..Len(to_line) :
             /\ \A m \in (p + 3)..(q - 1) : IsSpace(to_line[m])
             /\ IsTokenStart(to_line, q)

cleaned_response_content_KeepsDirective(ai_response_content) == ai_response_content

\* cleaned_response_content of send_ai_response_to_thread: the body it sends
cleaned_response_content(ai_response_content) ==
    LET lines == SplitLines(Strip(ai_response_content))
    IN IF /\ StartsWith(Upper(Strip(lines[1])), TO_LABEL)
          /\ SearchTo(Strip(lines[1]))
       THEN Strip(JoinLines(Tail(lines)))
       ELSE ai_response_content

AgentReferences_OnlyMessageId(message_id, references) == message_id

\* references as send_ai_response_to_thread passes it to send_email_via_ses
AgentReferences(message_id, references) ==
    IF message_id # <<>> /\ references # <<>> THEN references \o <<" ">> \o message_id
    ELSE IF message_id # <<>> THEN message_id
    ELSE references

\* references as reply_to_email_thread passes it to send_email_via_ses
UtilReferences(message_id, references) ==
    IF message_id # <<>> /\ references # <<>> THEN references \o <<" ">> \o message_id
    ELSE IF message_id # <<>> THEN message_id
    ELSE references

RE_LABEL == <<"r", "e", ":">>

AgentSubject_AlwaysPrefix(subject) == <<"R", "e", ":", " ">> \o subject

\* subject as send_ai_response_to_thread passes it to send_email_via_ses
AgentSubject(subject) ==
    IF ~StartsWith(Lower(subject), RE_LABEL) THEN <<"R", "e", ":", " ">> \o subject
    ELSE subject

\* subject as reply_to_email_thread passes it to send_email_via_ses
UtilSubject(subject) ==
    IF ~StartsWith(Lower(subject), RE_LABEL) THEN <<"R", "e", ":", " ">> \o subject
    ELSE subject

\* an optional header of the outbound message
Header(value) == [present |-> value # <<>>, value |-> value]

\* the message send_email_via_ses builds: In-Reply-To and References are set
\* only when the arguments are non-empty
MimeMessage(subject, body, reply_to_message_id, reply_to_references) ==
    [subject |-> subject,
     body |-> body,
     in_reply_to |-> Header(reply_to_message_id),
     references |-> Header(reply_to_references)]

\* the default reply_message of reply_to_email_thread
AUTO_REPLY ==
    <<"I", " ", "w", "i", "l", "l", " ", "g", "e", "t", " ", "b", "a", "c", "k", " ", "s", "o", "o", "n">>

\* a send_email_via_ses call together with the message it built
WithMessage(call, msg) ==
    [by |-> call.by, source |-> call.source, to |-> call.to, ok |-> call.ok, msg |-> msg]

\* the lines the agent's final text is made of
TextLines ==
    {<<"T", "O", ":", " ", "a", "@", "x">>,
     <<"t", "o", ":", "a", "@", "x", " ">>,
     <<"T", "O", ":", " ", "N">>,
     <<" ", "H", "i">>,
     <<"H", "i", " ", "t", "o", ":", " ", "a", "@", "x">>,
     <<>>}

\* the final texts: at most MaxLines lines joined by newlines
Texts == {JoinLines(ls) : ls \in SeqsUpTo(TextLines, MaxLines)}

MessageIds == {<<>>, <<"<", "m", ">">>}
ReferenceValues == {<<>>, <<"<", "r", ">">>}

SubjectHi == <<"H", "i">>

\* subjects: none, plain, already prefixed in several letter cases, and one
\* that only looks prefixed
Subjects ==
    {<<>>,
     SubjectHi,
     <<"R", "e", ":", " ", "H", "i">>,
     <<"R", "E", ":", "H", "i">>,
     <<"r", "e", " ", ":", "H", "i">>}

\* parsed emails from a user to the assistant: every combination of Message-ID
\* and References being present, and every subject
ThreadEmails(e) ==
    {[from |-> <<UserBare>>, to |-> <<AssistantBare(e)>>, cc |-> <<>>, return_path |-> <<>>,
      message_id |-> m, references |-> r, subject |-> SubjectHi] :
        m \in MessageIds, r \in ReferenceValues}
    \cup {[from |-> <<UserBare>>, to |-> <<AssistantBare(e)>>, cc |-> <<>>, return_path |-> <<>>,
           message_id |-> <<>>, references |-> <<>>, subject |-> sub] : sub \in Subjects}

----------------------------------------------------------------------------
(* The requests the gateway sends to the calendar provider *)

\* a calendar date as datetime.strptime(text, "%Y-%m-%d") reads it
Date(y, m, d) == [year |-> y, month |-> m, day |-> d]

IsLeap(y) == (y % 4 = 0 /\ y % 100 # 0) \/ y % 400 = 0

DaysInMonth(y, m) ==
    IF m = 2 THEN (IF IsLeap(y) THEN 29 ELSE 28)
    ELSE IF m \in {4, 6, 9, 11} THEN 30 ELSE 31

\* date + timedelta(days=1)
NextDay(date) ==
    IF date.day < DaysInMonth(date.year, date.month)
    THEN Date(date.year, date.month, date.day + 1)
    ELSE IF date.month < 12 THEN Date(date.year, date.month + 1, 1)
         ELSE Date(date.year + 1, 1, 1)

\* date - timedelta(days=1)
PrevDay(date) ==
    IF date.day > 1 THEN Date(date.year, date.month, date.day - 1)
    ELSE IF date.month > 1
         THEN Date(date.year, date.month - 1, DaysInMonth(date.year, date.month - 1))
         ELSE Date(date.year - 1, 12, 31)

\* a timestamp in UTC, as isoformat() writes it with the offset +00:00
UtcTimestamp(date, hour, minute) == [date |-> date, hour |-> hour, minute |-> minute]

\* timeMin of get_availability_low_level: the start date at 00:00 UTC
AvailabilityTimeMin(start_date) == UtcTimestamp(start_date, 0, 0)

AvailabilityTimeMax_SameDay(end_date) == UtcTimestamp(end_date, 0, 0)

\* timeMax of get_availability_low_level: the day after the end date at 00:00 UTC
AvailabilityTimeMax(end_date) == UtcTimestamp(NextDay(end_date), 0, 0)

Timezones == {"UTC", "America/New_York", "Asia/Kolkata"}

\* minutes east of UTC of a timezone on a date, as pytz localizes a wall-clock
\* time (the dates of the model lie outside March and November, the months in
\* which New York changes its offset)
UtcOffset(tz, date) ==
    CASE tz = "Asia/Kolkata" -> 330
      [] tz = "America/New_York" -> IF date.month \in 4..10 THEN 0 - 240 ELSE 0 - 300
      [] OTHER -> 0

\* what the provider answers to the timezone request for the owner's calendar:
\* the calendar's timeZone, a calendar without the field, or a failure
TimezoneWorlds == [owner_tz : Timezones, tz_fetch : {"ok", "no_field", "error"}]

\* get_user_timezone_low_level: calendar_data.get('timeZone', 'UTC'), and 'UTC'
\* on any exception
get_user_timezone_low_level(w) ==
    IF w.tz_fetch = "ok" THEN w.owner_tz ELSE "UTC"

\* user_tz.localize(naive).astimezone(pytz.UTC): the wall-clock time moved by
\* the offset of the timezone, with the date carried over midnight
ToUtc(date, hour, minute, tz) ==
    LET minutes == hour * 60 + minute - UtcOffset(tz, date)
    IN IF minutes < 0
       THEN UtcTimestamp(PrevDay(date), (minutes + 1440) \div 60, (minutes + 1440) % 60)
       ELSE IF minutes >= 1440
            THEN UtcTimestamp(NextDay(date), (minutes - 1440) \div 60, (minutes - 1440) % 60)
            ELSE UtcTimestamp(date, minutes \div 60, minutes % 60)

\* an optional field of the event resource
Field(present, value) == [present |-> present, value |-> value]

\* attendees as the caller passes them: omitted (None), an empty list, a list
AttendeeLists == {Field(FALSE, <<>>), Field(TRUE, <<>>), Field(TRUE, <<"g@x">>)}

\* the test "if attendees:"
HasAttendees(attendees) == attendees.present /\ attendees.value # <<>>

\* event_data of book_event_low_level, the body of the events.insert request
event_data(date, start_time, end_time, attendees, w) ==
    LET user_timezone == get_user_timezone_low_level(w)
    IN [start |-> [dateTime |-> ToUtc(date, start_time.hour, start_time.minute, user_timezone),
                   timeZone |-> user_timezone],
        end |-> [dateTime |-> ToUtc(date, end_time.hour, end_time.minute, user_timezone),
                 timeZone |-> user_timezone],
        attendees |-> Field(HasAttendees(attendees), attendees.value),
        guestsCanModify |-> Field(HasAttendees(attendees), FALSE),
        guestsCanInviteOthers |-> Field(HasAttendees(attendees), FALSE)]

\* the dates the operations are run on: plain days, ends of months, the end of
\* a year, the end of February in a leap year and in a common year
Dates ==
    {Date(2024, 1, 1), Date(2024, 1, 3), Date(2024, 6, 1), Date(2024, 6, 30),
     Date(2024, 2, 28), Date(2024, 2, 29), Date(2023, 2, 28), Date(2024, 12, 31)}

\* the order of calendar dates
DateLeq(a, b) ==
    \/ a.year < b.year
    \/ a.year = b.year /\ a.month < b.month
    \/ a.year = b.year /\ a.month = b.month /\ a.day <= b.day

Time(h, m) == [hour |-> h, minute |-> m]

\* start_time and end_time of the bookings the model makes
TimeSlots ==
    {[start_time |-> Time(14, 0), end_time |-> Time(15, 0)],
     [start_time |-> Time(0, 15), end_time |-> Time(1, 0)],
     [start_time |-> Time(22, 30), end_time |-> Time(23, 45)]}

----------------------------------------------------------------------------
(* The gateway operations applied to every answer of the services *)

Owners == {"o1", "o2"}
Events == {"e1", "e2"}

InitGw ==
    /\ entry = "gw"
    /\ pc = "start"
    /\ env = EnvUnset
    /\ email = EmptyEmail
    /\ messages = <<>>
    /\ iteration = 0
    /\ tcIdx = 0
    /\ nChat = 0
    /\ dispatched = <<>>
    /\ handed = NotHanded
    /\ sent = <<>>
    /\ outcome = NoOutcome

\* one invocation of a gateway operation, as the loop body makes it
GwInvoke(tool_call) ==
    /\ pc = "start"
    /\ entry = "gw"
    /\ \E w \in Worlds : dispatched' = Invocations(tool_call, w)
    /\ pc' = "returned"
    /\ UNCHANGED <<entry, env, email, messages, iteration, tcIdx, nChat, handed, sent, outcome>>

GwGetAvailability ==
    \E o \in Owners :
        GwInvoke([id |-> 1, name |-> "get_availability", args |-> "ok",
                  owner_email |-> o, event_id |-> ""])

GwBookEvent ==
    \E o \in Owners :
        GwInvoke([id |-> 1, name |-> "book_event", args |-> "ok",
                  owner_email |-> o, event_id |-> ""])

GwCancelEvent ==
    \E o \in Owners, ev \in Events :
        GwInvoke([id |-> 1, name |-> "cancel_event", args |-> "ok",
                  owner_email |-> o, event_id |-> ev])

NextGw ==
    \/ GwGetAvailability
    \/ GwBookEvent
    \/ GwCancelEvent

SpecGateway == InitGw /\ [][NextGw]_vars

----------------------------------------------------------------------------
(* The reply functions applied to final texts and threading headers *)

InitReply ==
    /\ entry = "reply"
    /\ pc = "start"
    /\ env \in Envs
    /\ email \in ThreadEmails(env)
    /\ messages = <<>>
    /\ iteration = 0
    /\ tcIdx = 0
    /\ nChat = 0
    /\ dispatched = <<>>
    /\ handed \in Texts
    /\ sent = <<>>
    /\ outcome = NoOutcome

\* send_ai_response_to_thread(email, handed)
ReplySendAIResponse ==
    /\ pc = "start"
    /\ entry = "reply"
    /\ \E send_result \in send_ai_response_to_thread(email, env) :
         /\ sent' = [c \in 1..Len(send_result.calls) |->
                        WithMessage(send_result.calls[c],
                            MimeMessage(AgentSubject(email.subject),
                                        cleaned_response_content(handed),
                                        email.message_id,
                                        AgentReferences(email.message_id, email.references)))]
         /\ outcome' = Outcome(IF send_result.success THEN "sent" ELSE "not sent",
                               send_result.error, NotHanded, FALSE)
    /\ pc' = "returned"
    /\ UNCHANGED <<entry, env, email, messages, iteration, tcIdx, nChat, dispatched, handed>>

\* reply_to_email_thread(email) with the default reply_message
ReplyAutoReply ==
    /\ pc = "start"
    /\ entry = "reply"
    /\ \E reply_result \in reply_to_email_thread(email, env) :
         /\ sent' = [c \in 1..Len(reply_result.calls) |->
                        WithMessage(reply_result.calls[c],
                            MimeMessage(UtilSubject(email.subject),
                                        AUTO_REPLY,
                                        email.message_id,
                                        UtilReferences(email.message_id, email.references)))]
         /\ outcome' = Outcome(IF reply_result.success THEN "auto reply sent" ELSE "not sent",
                               reply_result.error, NotHanded, FALSE)
    /\ pc' = "returned"
    /\ UNCHANGED <<entry, env, email, messages, iteration, tcIdx, nChat, dispatched, handed>>

NextReply ==
    \/ ReplySendAIResponse
    \/ ReplyAutoReply

SpecReply == InitReply /\ [][NextReply]_vars

----------------------------------------------------------------------------
(* The low-level operations building their provider requests *)

InitCalendar ==
    /\ entry = "calendar"
    /\ pc = "start"
    /\ env = EnvUnset
    /\ email = EmptyEmail
    /\ messages = <<>>
    /\ iteration = 0
    /\ tcIdx = 0
    /\ nChat = 0
    /\ dispatched = <<>>
    /\ handed = NotHanded
    /\ sent = <<>>
    /\ outcome = NoOutcome

\* get_availability_low_level up to its events.list request
CalGetAvailability ==
    /\ pc = "start"
    /\ entry = "calendar"
    /\ \E start_date \in Dates, end_date \in Dates, w \in TimezoneWorlds :
         /\ DateLeq(start_date, end_date)
         /\ dispatched' = <<[name |-> "get_availability",
                             start_date |-> start_date, end_date |-> end_date, world |-> w,
                             user_timezone |-> get_user_timezone_low_level(w),
                             params |-> [timeMin |-> AvailabilityTimeMin(start_date),
                                         timeMax |-> AvailabilityTimeMax(end_date)]]>>
    /\ pc' = "returned"
    /\ UNCHANGED <<entry, env, email, messages, iteration, tcIdx, nChat, handed, sent, outcome>>

\* book_event_low_level up to its events.insert request
CalBookEvent ==
    /\ pc = "start"
    /\ entry = "calendar"
    /\ \E date \in Dates, slot \in TimeSlots, attendees \in AttendeeLists, w \in TimezoneWorlds :
         dispatched' = <<[name |-> "book_event",
                          date |-> date, start_time |-> slot.start_time,
                          end_time |-> slot.end_time, attendees |-> attendees, world |-> w,
                          event_data |-> event_data(date, slot.start_time, slot.end_time,
                                                    attendees, w)]>>
    /\ pc' = "returned"
    /\ UNCHANGED <<entry, env, email, messages, iteration, tcIdx, nChat, handed, sent, outcome>>

NextCalendar ==
    \/ CalGetAvailability
    \/ CalBookEvent

SpecCalendar == InitCalendar /\ [][NextCalendar]_vars

----------------------------------------------------------------------------
(* Two invocations of process_email_with_ai in one process *)

\* the two invocations; invocation r processes message r
Runs == {1, 2}

\* the provider's answers the invocations are run against: a final answer and a
\* batch of two tool calls
PairResponses ==
    {r \in ModelResponses : r.content = "Hello" \/ Len(r.tool_calls) = 2}

\* the external responses one invocation receives: the chat-completion answers
\* in order (the call after the last one fails), what the gateway's services
\* answer, and whether the mail provider accepts the reply
Answers ==
    [responses : SeqsUpTo(PairResponses, MaxRounds),
     gateway : {"value", "raise"},
     send_ok : BOOLEAN]

\* what the invocations share: os.environ, the module-level _secrets of
\* clerk_util, and the outside world with its answers to each invocation
PairEnvs ==
    {[set |-> EnvSet.set, value |-> EnvSet.value, secrets |-> k, answers |-> a] :
        k \in {"with_key", "without_key"}, a \in [Runs -> Answers]}

\* parse_email_from_s3 of the message invocation r is given
MessageOf(r, e) ==
    IF r = 1
    THEN [from |-> <<UserBare>>, to |-> <<AssistantBare(e)>>, cc |-> <<>>, return_path |-> <<>>]
    ELSE [from |-> <<UserNamed>>, to |-> <<AssistantBare(e)>>, cc |-> <<UserUpper>>,
          return_path |-> UserReturnPath]

\* the local variables of an invocation that has not run yet
NewRun ==
    [pc |-> "start", email |-> EmptyEmail, messages |-> <<>>, iteration |-> 0, tcIdx |-> 0,
     nChat |-> 0, dispatched |-> <<>>, handed |-> NotHanded, sent |-> <<>>,
     outcome |-> NoOutcome]

\* the except branch of process_email_with_ai, on the locals L
RunRaise(L, msg) == [L EXCEPT !.pc = "returned", !.outcome = ErrorOutcome(msg)]

\* the result of send_ai_response_to_thread when the mail provider answers ok
SendResult(parsed_email, e, ok) ==
    LET results == send_ai_response_to_thread(parsed_email, e)
    IN IF \E s \in results : s.success = ok
       THEN CHOOSE s \in results : s.success = ok
       ELSE CHOOSE s \in results : TRUE

\* one pass of the loop body for the tool call at L.tcIdx
RunDispatch(L, x) ==
    LET batch == L.messages[Len(L.messages) - (L.tcIdx - 1)].tool_calls
        tool_call == CurrentCall(batch, L.tcIdx)
        invoked == tool_call.name \in KnownTools /\ ~RequiredKeyMissing(tool_call)
        w == WorldOf(x.gateway)
        error == IF invoked THEN GatewayCall(tool_call, w).error
                 ELSE IF tool_call.name \notin KnownTools
                      THEN <<"Unknown tool: ", tool_call.name>>
                      ELSE <<"KeyError">>
        last == L.tcIdx = Len(batch)
    IN IF JsonLoadsRaises(tool_call)
       THEN RunRaise(L, "JSONDecodeError")
       ELSE [L EXCEPT !.messages = Append(@, ToolTurn(tool_call.id, error)),
                      !.dispatched = IF invoked THEN @ \o Invocations(tool_call, w) ELSE @,
                      !.iteration = IF last THEN @ + 1 ELSE @,
                      !.tcIdx = IF last THEN 0 ELSE @ + 1,
                      !.pc = IF last THEN LoopTarget(L.iteration + 1) ELSE @]

\* the code after the loop: final_response, the send and the return value
RunFinish(L, x, e) ==
    LET last == L.messages[Len(L.messages)]
        send_result == SendResult(L.email, e, x.send_ok)
    IN IF ~HasContentAttribute(last)
       THEN RunRaise(L, "AttributeError: 'dict' object has no attribute 'content'")
       ELSE IF last.content = NoneContent
            THEN RunRaise([L EXCEPT !.handed = last.content],
                          "AttributeError: 'NoneType' object has no attribute 'strip'")
            ELSE [L EXCEPT !.handed = last.content,
                           !.sent = @ \o send_result.calls,
                           !.pc = "returned",
                           !.outcome = IF send_result.success
                                       THEN Outcome("processed", "", last.content, FALSE)
                                       ELSE SendFailureOutcome(send_result, last.content)]

\* the next step of process_email_with_ai on the locals L of an invocation
\* that is given parsed_email and receives the external responses x
RunStep(L, parsed_email, x, e) ==
    CASE L.pc = "start" -> [L EXCEPT !.email = parsed_email, !.pc = "init"]
      [] L.pc = "init" ->
            IF e.secrets = "without_key"
            THEN RunRaise(L, "OPENAI_API_KEY not found in secrets")
            ELSE [L EXCEPT !.messages = InitialConversation(L.email),
                           !.iteration = 0, !.pc = LoopTarget(0)]
      [] L.pc = "call_model" ->
            IF L.nChat + 1 > Len(x.responses)
            THEN RunRaise([L EXCEPT !.nChat = @ + 1], "chat completion failed")
            ELSE LET r == x.responses[L.nChat + 1]
                 IN [L EXCEPT !.nChat = @ + 1,
                              !.messages = Append(@, AssistantMessage(r, L.nChat + 1)),
                              !.tcIdx = IF r.tool_calls # <<>> THEN 1 ELSE 0,
                              !.pc = IF r.tool_calls # <<>> THEN "executing"
                                     ELSE AfterFinalAnswer(L.iteration)]
      [] L.pc = "executing" -> RunDispatch(L, x)
      [] L.pc = "finish" -> RunFinish(L, x, e)
      [] OTHER -> L

ConversationOf_ModuleLevel(r) == 1

\* where the conversation of invocation r is kept: messages is a local variable
\* of process_email_with_ai, one list per invocation
ConversationOf(r) == r

\* the locals of invocation r
LocalOf(r) ==
    [pc |-> pc[r], email |-> email[r], messages |-> messages[ConversationOf(r)],
     iteration |-> iteration[r], tcIdx |-> tcIdx[r], nChat |-> nChat[r],
     dispatched |-> dispatched[r], handed |-> handed[r], sent |-> sent[r],
     outcome |-> outcome[r]]

InitPair ==
    /\ entry = "pair"
    /\ env \in PairEnvs
    /\ pc = [r \in Runs |-> NewRun.pc]
    /\ email = [r \in Runs |-> NewRun.email]
    /\ messages = [r \in Runs |-> NewRun.messages]
    /\ iteration = [r \in Runs |-> NewRun.iteration]
    /\ tcIdx = [r \in Runs |-> NewRun.tcIdx]
    /\ nChat = [r \in Runs |-> NewRun.nChat]
    /\ dispatched = [r \in Runs |-> NewRun.dispatched]
    /\ handed = [r \in Runs |-> NewRun.handed]
    /\ sent = [r \in Runs |-> NewRun.sent]
    /\ outcome = [r \in Runs |-> NewRun.outcome]

\* invocation r, standing at the step `at`, takes that step
PairAdvance(r, at) ==
    /\ entry = "pair"
    /\ pc[r] = at
    /\ LET L == RunStep(LocalOf(r), MessageOf(r, env), env.answers[r], env)
       IN /\ pc' = [pc EXCEPT ![r] = L.pc]
          /\ email' = [email EXCEPT ![r] = L.email]
          /\ messages' = [messages EXCEPT ![ConversationOf(r)] = L.messages]
          /\ iteration' = [iteration EXCEPT ![r] = L.iteration]
          /\ tcIdx' = [tcIdx EXCEPT ![r] = L.tcIdx]
          /\ nChat' = [nChat EXCEPT ![r] = L.nChat]
          /\ dispatched' = [dispatched EXCEPT ![r] = L.dispatched]
          /\ handed' = [handed EXCEPT ![r] = L.handed]
          /\ sent' = [sent EXCEPT ![r] = L.sent]
          /\ outcome' = [outcome EXCEPT ![r] = L.outcome]
    /\ UNCHANGED <<entry, env>>

PairReadAndParse == \E r \in Runs : PairAdvance(r, "start")
PairInitConversation == \E r \in Runs : PairAdvance(r, "init")
PairChatCompletion == \E r \in Runs : PairAdvance(r, "call_model")
PairDispatchToolCall == \E r \in Runs : PairAdvance(r, "executing")
PairFinish == \E r \in Runs : PairAdvance(r, "finish")

NextPair ==
    \/ PairReadAndParse
    \/ PairInitConversation
    \/ PairChatCompletion
    \/ PairDispatchToolCall
    \/ PairFinish

SpecPair == InitPair /\ [][NextPair]_vars

----------------------------------------------------------------------------
(* Properties *)

\* the address the running entry point takes as the assistant's own
EntryAssistant == IF entry = "ai" THEN AgentBookingEmail(env) ELSE UtilBookingEmail(env)

\* the cleaned first From address equals the assistant address, case-insensitively
IsLoopMessage(parsed_email, assistant) ==
    /\ parsed_email.from # <<>>
    /\ Lower(extract_clean_email(parsed_email.from[1])) = Lower(assistant)

AssistantIndexes == {i \in 1..Len(messages) : messages[i].role = "assistant"}

\* number of tool turns that directly follow the turn at index i
ToolTurnsAfter(i) ==
    CHOOSE n \in 0..(Len(messages) - i) :
        /\ \A j \in 1..n : messages[i + j].role = "tool"
        /\ (i + n = Len(messages) \/ messages[i + n + 1].role # "tool")

\* C1: when the cleaned first From address of the inbound email equals the
\* assistant's address, the run makes no chat-completion call, dispatches no
\* calendar tool and sends no reply, in both entry points.
C1_LoopGuard ==
    (entry \in {"ai", "lambda"} /\ IsLoopMessage(email, EntryAssistant))
        => (nChat = 0 /\ dispatched = <<>> /\ sent = <<>>)

\* C2: a single process_email_with_ai run makes at most 5 chat-completion
\* calls, whatever the model answers.
C2_AtMostFiveCalls == entry = "ai" => nChat <= max_iterations

\* five round-trips were made and every one of them asked for tools
C2_Witness ==
    /\ entry = "ai"
    /\ nChat = max_iterations
    /\ iteration = max_iterations
    /\ \A i \in AssistantIndexes : messages[i].tool_calls # <<>>

\* C3: when all 5 round-trips return tool calls, the run hands the text of the
\* last assistant message to the reply dispatcher and does not report the
\* exceeded limit as an error outcome.
C3_BestEffortAnswer ==
    (entry = "ai" /\ pc = "returned" /\ iteration = max_iterations)
        => /\ handed # NotHanded
           /\ \E i \in AssistantIndexes :
                /\ \A j \in AssistantIndexes : j <= i
                /\ handed = messages[i].content
           /\ (outcome.action = "processed"
               \/ outcome.error \in {"No valid recipients found", "ses error"})

\* the longest batch of tool calls the provider answers with
BatchBound ==
    CHOOSE n \in {Len(r.tool_calls) : r \in ModelResponses} :
        \A r \in ModelResponses : Len(r.tool_calls) <= n

\* an upper bound on the number of steps a process_email_with_ai run has left
StepsLeft ==
    CASE pc = "returned" -> 0
      [] pc = "finish" -> 1
      [] pc = "call_model" -> 2 + (max_iterations - iteration) * (BatchBound + 1)
      [] pc = "executing" ->
            2 + (max_iterations - iteration - 1) * (BatchBound + 1)
              + (Len(CurrentBatch) - tcIdx + 1)
      [] pc = "init" -> 3 + max_iterations * (BatchBound + 1)
      [] OTHER -> 4 + max_iterations * (BatchBound + 1)

\* C4: every process_email_with_ai invocation eventually returns an outcome:
\* the number of steps left is a natural number that every step decreases,
\* a run that has not returned can always take a step (every external call
\* returns or raises), and a run that has returned has an outcome.
C4_Terminates ==
    /\ [](entry = "ai" =>
            /\ StepsLeft \in Nat
            /\ (pc = "returned" \/ ENABLED Next)
            /\ (pc = "returned" => outcome.action \in {"processed", "error"}))
    /\ [][entry = "ai" => StepsLeft' < StepsLeft]_vars

\* a run that used all five round-trips has returned
C4_Witness ==
    /\ entry = "ai"
    /\ pc = "returned"
    /\ nChat = max_iterations
    /\ iteration = max_iterations

\* C5: for every assistant response with k >= 1 tool calls, all k calls are
\* dispatched and exactly k tool-result turns, one per call id, follow it once
\* the batch is over (at the next chat-completion call or at the end of the run).
C5_BatchFullyAnswered ==
    (entry = "ai" /\ pc \in {"call_model", "finish", "returned"})
        => \A i \in AssistantIndexes :
             LET k == Len(messages[i].tool_calls)
             IN /\ ToolTurnsAfter(i) = k
                /\ \A j \in 1..k :
                     messages[i + j].tool_call_id = messages[i].tool_calls[j].id

\* C6: a fault raised while dispatching a tool call (decoding its arguments,
\* reading a required argument, an exception of the gateway) never becomes the
\* outcome of the run.
C6_DispatchFaultsStayInLoop ==
    entry = "ai" => outcome.error \notin {"JSONDecodeError", "KeyError", "gateway raised"}

\* C7: the tool calls of a batch are executed in the order the model emitted
\* them, and their tool-result turns follow the assistant turn in that order,
\* all of them before the next chat-completion call.
C7_ResultsInEmissionOrder ==
    /\ \A i \in AssistantIndexes :
         LET n == ToolTurnsAfter(i)
         IN /\ n <= Len(messages[i].tool_calls)
            /\ \A j \in 1..n :
                 messages[i + j].tool_call_id = messages[i].tool_calls[j].id
            /\ (pc = "call_model" => n = Len(messages[i].tool_calls))
    /\ \A i \in 1..Len(messages) :
         messages[i].role = "tool" => messages[i - 1].role \in {"assistant", "tool"}
    /\ \A a, b \in 1..Len(dispatched) :
         a < b => dispatched[a].id < dispatched[b].id

\* a batch of two calls has been answered, the second by the gateway, and the
\* model is about to be called again
C7_Witness ==
    /\ pc = "call_model"
    /\ Len(dispatched) >= 2
    /\ \E i \in AssistantIndexes :
         /\ Len(messages[i].tool_calls) = 2
         /\ ToolTurnsAfter(i) = 2
         /\ \E d \in 1..Len(dispatched) :
              dispatched[d].id = messages[i].tool_calls[2].id

\* C8: a response without tool calls ends the loop at once: it stays the last
\* turn of the conversation, no chat-completion call follows it, and the text
\* handed to the reply dispatcher is its content.
C8_DoneOnFinalAnswer ==
    \A i \in AssistantIndexes :
        messages[i].tool_calls = <<>>
            => /\ i = Len(messages)
               /\ pc \in {"finish", "returned"}
               /\ nChat = Cardinality(AssistantIndexes)
               /\ (pc = "returned" => handed = messages[i].content)
               /\ (pc = "finish" => handed = NotHanded)

\* a run whose third response had no tool calls has returned after replying
C8_Witness ==
    /\ pc = "returned"
    /\ nChat = 3
    /\ Len(dispatched) >= 1
    /\ messages[Len(messages)].role = "assistant"
    /\ messages[Len(messages)].tool_calls = <<>>
    /\ handed = "Hello"
    /\ outcome.action = "processed"

\* the assistant address as resolved by the function that made a send call
CallAssistant(call) ==
    IF call.by = "send_ai_response_to_thread"
    THEN AgentBookingEmail(env) ELSE UtilBookingEmail(env)

\* C9: no recipient passed to the mail sender by send_ai_response_to_thread or
\* reply_to_email_thread equals the assistant address, case-insensitively.
C9_NeverToAssistant ==
    \A c \in 1..Len(sent) : \A r \in 1..Len(sent[c].to) :
        Lower(sent[c].to[r]) # Lower(CallAssistant(sent[c]))

\* a reply went out for an email that names the assistant as "Name <ADDR>" in
\* another letter case in To or Cc
C9_Witness ==
    /\ Len(sent) = 1
    /\ \E i \in 1..Len(email.to \o email.cc) :
         LET raw == (email.to \o email.cc)[i]
         IN /\ Contains(raw, "<")
            /\ extract_clean_email(raw) # CallAssistant(sent[1])
            /\ Lower(extract_clean_email(raw)) = Lower(CallAssistant(sent[1]))

\* C10: the recipient list of a reply never holds the same address twice,
\* comparing case-insensitively.
C10_NoDuplicateRecipients ==
    \A c \in 1..Len(sent) : \A a, b \in 1..Len(sent[c].to) :
        a < b => Lower(sent[c].to[a]) # Lower(sent[c].to[b])

\* C11: should_reply_to_email returns False exactly when the cleaned first From
\* address equals the assistant address case-insensitively, whatever the
\* Return-Path, To and Cc hold.
C11_LoopPredicateIsFirstFrom ==
    (entry = "fn" /\ outcome.action = "should_reply")
        => (~outcome.auto_reply_sent <=> IsLoopMessage(email, UtilBookingEmail(env)))

\* C12: when the recipient list computed for the agent's reply is empty, the
\* mail sender is not invoked and process_email_with_ai returns a failure
\* outcome that names the missing recipients.
C12_EmptyRecipientsFail ==
    (/\ entry = "ai"
     /\ pc = "returned"
     /\ handed \notin {NotHanded, NoneContent}
     /\ AgentParticipants(email, AgentBookingEmail(env)) = <<>>)
        => /\ sent = <<>>
           /\ outcome.action = "error"
           /\ outcome.error = "No valid recipients found"

\* a final answer was produced for an email whose only participants are the
\* assistant, and the run returned
C12_Witness ==
    /\ entry = "ai"
    /\ pc = "returned"
    /\ handed = "Hello"
    /\ email.from # <<>>
    /\ AgentParticipants(email, AgentBookingEmail(env)) = <<>>
    /\ outcome.error = "No valid recipients found"

\* C13: when the mail transport fails, process_email_with_ai returns a failure
\* outcome that carries the transport's error and the agent's final text.
C13_SendFailureKeepsText ==
    (entry = "ai" /\ pc = "returned" /\ \E c \in 1..Len(sent) : ~sent[c].ok)
        => /\ outcome.action = "error"
           /\ outcome.error = "ses error"
           /\ handed \notin {NotHanded, NoneContent}
           /\ outcome.email_response = handed
           /\ handed = messages[Len(messages)].content

\* the transport failed on the reply of a run that had dispatched a tool
C13_Witness ==
    /\ entry = "ai"
    /\ pc = "returned"
    /\ Len(sent) = 1
    /\ ~sent[1].ok
    /\ Len(dispatched) >= 1
    /\ outcome.email_response = "Hello"

\* the reply dispatcher of the run failed: the transport reported a failure or
\* there was no recipient
DispatchFailed ==
    \/ \E c \in 1..Len(sent) : ~sent[c].ok
    \/ /\ entry = "ai"
       /\ handed \notin {NotHanded, NoneContent}
       /\ sent = <<>>
    \/ /\ entry = "lambda"
       /\ pc = "returned"
       /\ outcome.action = "200"
       /\ should_reply_to_email(email, env)
       /\ sent = <<>>

\* C14: on a pipeline-level failure the caller of either entry point gets a
\* structured failure outcome: never an exception, never a success outcome.
C14_StructuredFailure ==
    (entry \in {"ai", "lambda"} /\ pc = "returned")
        => /\ outcome.action # "raised"
           /\ (DispatchFailed => outcome.action = "error")

\* C15: when the raw input cannot be read or parsed, the run makes no
\* chat-completion call, invokes no calendar operation and sends no mail.
C15_ParseFailureAborts ==
    (entry \in {"ai", "lambda"} /\ outcome.error \in {"read failed", "parse failed"})
        => /\ nChat = 0
           /\ dispatched = <<>>
           /\ sent = <<>>
           /\ messages = <<>>
           /\ pc = "returned"

\* a process_email_with_ai run returned the failure of the parser
C15_Witness ==
    /\ entry = "ai"
    /\ pc = "returned"
    /\ outcome.action = "error"
    /\ outcome.error = "parse failed"

\* C16: when the identity directory has no user for owner_email, each of
\* get_availability, book_event and cancel_event returns the error value
\* "User not found" after the directory lookup alone (no credential fetched, no
\* provider call); the loop appends it as the tool result of that call and the
\* step that dispatched it does not end the run.
C16_UnknownOwnerIsToolResult ==
    /\ [](entry = "ai" =>
             \A d \in 1..Len(dispatched) :
                 dispatched[d].world.directory = "none"
                     => /\ dispatched[d].result.kind = "error_value"
                        /\ dispatched[d].result.error = <<"User not found">>
                        /\ dispatched[d].result.calls = <<"directory">>
                        /\ \E j \in 1..Len(messages) :
                             /\ messages[j].role = "tool"
                             /\ messages[j].tool_call_id = dispatched[d].id
                             /\ messages[j].content.error = <<"User not found">>)
    /\ [][(/\ entry = "ai"
           /\ Len(dispatched') > Len(dispatched)
           /\ dispatched'[Len(dispatched')].world.directory = "none")
              => /\ pc' \in {"executing", "call_model", "finish"}
                 /\ outcome' = outcome]_vars

\* one run met an unknown owner in each of the three operations
C16_Witness ==
    /\ entry = "ai"
    /\ \A name \in KnownTools :
         \E d \in 1..Len(dispatched) :
             /\ dispatched[d].name = name
             /\ dispatched[d].world.directory = "none"
             /\ dispatched[d].result.error = <<"User not found">>
    /\ nChat >= 3

\* what cancel_event is up against: the provider does not know the event
\* (404), the owner has no connected calendar (no user, or no token for the
\* user), or the provider fails otherwise
CancelCase(w) ==
    CASE w.directory = "found" /\ w.credential = "token" /\ w.provider = "404"
            -> "event_not_found"
      [] w.directory = "none" \/ (w.directory = "found" /\ w.credential = "none")
            -> "no_calendar"
      [] w.directory = "found" /\ w.credential = "token" /\ w.provider \in {"500", "timeout"}
            -> "provider_failure"
      [] OTHER -> "other"

\* C17: the result of cancel_event for an unknown event id differs from its
\* result for an owner without a connected calendar and from its result for
\* another provider failure, whatever the owner and the event id.
C17_CancelOutcomesDistinct ==
    \A d \in 1..Len(dispatched) :
        (entry = "gw" /\ dispatched[d].name = "cancel_event"
                      /\ CancelCase(dispatched[d].world) # "other")
            => \A w \in Worlds, o \in Owners, ev \in Events :
                 CancelCase(w) \notin {"other", CancelCase(dispatched[d].world)}
                    => LET other == cancel_event(o, ev, w)
                       IN <<other.kind, other.error>>
                            # <<dispatched[d].result.kind, dispatched[d].result.error>>

\* cancel_event was refused by the provider with a 404
C17_Witness ==
    /\ entry = "gw"
    /\ Len(dispatched) = 1
    /\ dispatched[1].name = "cancel_event"
    /\ dispatched[1].world = [directory |-> "found", credential |-> "token", provider |-> "404"]
    /\ dispatched[1].result.error =
         <<"Failed to cancel event for ", "o1", ": ", "Event with ID ", "e1", " not found">>

\* C18: every gateway invocation of a run answers a tool call the model
\* emitted in that run, with that call's operation and arguments, and no tool
\* call is answered by more than one invocation, failed or not.
C18_OnlyModelCallsOnce ==
    entry = "ai" =>
        /\ \A d \in 1..Len(dispatched) :
             \E i \in AssistantIndexes : \E k \in 1..Len(messages[i].tool_calls) :
                 LET tool_call == messages[i].tool_calls[k]
                 IN /\ tool_call.id = dispatched[d].id
                    /\ tool_call.name = dispatched[d].name
                    /\ tool_call.args = "ok"
                    /\ tool_call.owner_email = dispatched[d].owner_email
                    /\ tool_call.event_id = dispatched[d].event_id
        /\ \A a, b \in 1..Len(dispatched) :
             a # b => dispatched[a].id # dispatched[b].id

\* an invocation failed and the model was called again afterwards
C18_Witness ==
    /\ entry = "ai"
    /\ pc = "returned"
    /\ outcome.action = "processed"
    /\ \E d \in 1..Len(dispatched) :
         /\ dispatched[d].result.kind = "raised"
         /\ dispatched[d].name = "cancel_event"
         /\ dispatched[d].owner_email = "o2"
         /\ dispatched[d].event_id = "e1"

\* the first line of a text, and what follows its first newline
FirstLine(text) == SplitLines(text)[1]
AfterFirstLine(text) == JoinLines(Tail(SplitLines(text)))

\* a line that is a directive: the label TO: in any letter case, then an
\* address
DirectiveLine(line) == StartsWith(Upper(line), TO_LABEL) /\ SearchTo(line)

\* the replies send_ai_response_to_thread handed to the mail sender
AgentReplies == {c \in 1..Len(sent) : sent[c].by = "send_ai_response_to_thread"}

\* C19 as stated: when the first line of the final text is a directive
\* TO: <email>, the body sent is the final text with that line removed;
\* otherwise the body sent is the final text unmodified.
C19_DirectiveLineRemoved ==
    entry = "reply" =>
        \A c \in AgentReplies :
            sent[c].msg.body = IF DirectiveLine(FirstLine(handed))
                               THEN AfterFirstLine(handed)
                               ELSE handed

\* C19 (amended): with the directive looked for in the first line of the final
\* text once the surrounding whitespace of the text and of that line is
\* stripped, the body sent is the rest of the stripped text, itself stripped of
\* surrounding whitespace, when the directive is there, and the final text
\* unmodified when it is not; the absence of a directive is not an error.
C19_DirectiveLineRemovedStripped ==
    entry = "reply" =>
        /\ \A c \in AgentReplies :
             sent[c].msg.body = IF DirectiveLine(Strip(FirstLine(Strip(handed))))
                                THEN Strip(AfterFirstLine(Strip(handed)))
                                ELSE handed
        /\ (pc = "returned" /\ outcome.action \in {"sent", "not sent"})
              => /\ Len(sent) = 1
                 /\ outcome.error \in {"", "ses error"}

\* a reply went out for a final text made of a directive line and an indented
\* line of text
C19_Witness ==
    /\ entry = "reply"
    /\ AgentReplies = {1}
    /\ sent[1].ok
    /\ handed = <<"T", "O", ":", " ", "a", "@", "x", "\n", " ", "H", "i">>
    /\ sent[1].msg.body = <<"H", "i">>

\* C20: the References header of a reply is the incoming References followed
\* by the incoming Message-ID when both are present, the one that is present
\* when only one is, and absent when neither is; for both reply functions.
C20_ReferencesHeader ==
    entry = "reply" =>
        \A c \in 1..Len(sent) :
            LET header == sent[c].msg.references
            IN /\ (email.message_id # <<>> /\ email.references # <<>>)
                    => /\ header.present
                       /\ header.value = email.references \o <<" ">> \o email.message_id
               /\ (email.message_id # <<>> /\ email.references = <<>>)
                    => (header.present /\ header.value = email.message_id)
               /\ (email.message_id = <<>> /\ email.references # <<>>)
                    => (header.present /\ header.value = email.references)
               /\ (email.message_id = <<>> /\ email.references = <<>>)
                    => ~header.present

\* the agent's reply to an email carrying both headers went out
C20_Witness ==
    /\ entry = "reply"
    /\ AgentReplies = {1}
    /\ email.message_id # <<>>
    /\ email.references # <<>>
    /\ sent[1].msg.references.value = <<"<", "r", ">", " ", "<", "m", ">">>

\* C21: the subject rule is idempotent: applied to the subject of a reply it
\* has produced, it returns that subject unchanged; for both reply functions.
C21_SubjectIdempotent ==
    entry = "reply" =>
        \A c \in 1..Len(sent) :
            /\ AgentSubject(sent[c].msg.subject) = sent[c].msg.subject
            /\ UtilSubject(sent[c].msg.subject) = sent[c].msg.subject

\* a reply to a subject without prefix went out with the prefix added
C21_Witness ==
    /\ entry = "reply"
    /\ AgentReplies = {1}
    /\ email.subject = SubjectHi
    /\ sent[1].msg.subject = <<"R", "e", ":", " ", "H", "i">>

\* days of the months of a common year before each month
DaysBeforeMonth == <<0, 31, 59, 90, 120, 151, 181, 212, 243, 273, 304, 334>>

\* number of the day in the sequence of all days, counted from 1 January 2023
DayNumber(date) ==
    (date.year - 2023) * 365
      + Cardinality({y \in 2023..(date.year - 1) : IsLeap(y)})
      + DaysBeforeMonth[date.month]
      + (IF date.month > 2 /\ IsLeap(date.year) THEN 1 ELSE 0)
      + date.day

\* minutes of a UTC timestamp since 1 January 2023
Instant(ts) == DayNumber(ts.date) * 1440 + ts.hour * 60 + ts.minute

ValidDate(date) ==
    /\ date.month \in 1..12
    /\ date.day \in 1..DaysInMonth(date.year, date.month)

C23_OwnerTimezoneInstants ==
    \A d \in 1..Len(dispatched) :
        (entry = "calendar" /\ dispatched[d].name = "book_event")
            => LET req == dispatched[d]
                   offset == UtcOffset(req.world.owner_tz, req.date)
               IN /\ Instant(req.event_data.start.dateTime)
                       = DayNumber(req.date) * 1440
                           + req.start_time.hour * 60 + req.start_time.minute - offset
                  /\ Instant(req.event_data.end.dateTime)
                       = DayNumber(req.date) * 1440
                           + req.end_time.hour * 60 + req.end_time.minute - offset

\* C24: every event-creation request carries guestsCanModify = false and
\* guestsCanInviteOthers = false, with attendees supplied or omitted.
C24_GuestsCannotChange ==
    \A d \in 1..Len(dispatched) :
        (entry = "calendar" /\ dispatched[d].name = "book_event")
            => /\ dispatched[d].event_data.guestsCanModify = [present |-> TRUE, value |-> FALSE]
               /\ dispatched[d].event_data.guestsCanInviteOthers = [present |-> TRUE, value |-> FALSE]

\* a is an initial segment of b
IsPrefixOf(a, b) == Len(a) <= Len(b) /\ SubSeq(b, 1, Len(a)) = a

\* C26: the first chat-completion call is passed exactly [system, user]; the
\* conversation only grows by appending, and each chat-completion call that is
\* followed by another one has made it strictly longer.
C26_ConversationAppendOnly ==
    /\ []((entry = "ai" /\ pc = "call_model" /\ nChat = 0)
            => messages = <<SystemTurn, UserTurn(email)>>)
    /\ [][entry = "ai"
            => /\ IsPrefixOf(messages, messages')
               /\ (nChat' > nChat /\ pc' # "returned") => Len(messages') > Len(messages)]_vars

\* a third chat-completion call is about to be made on a conversation that
\* holds the two earlier answers and their tool results
C26_Witness ==
    /\ entry = "ai"
    /\ pc = "call_model"
    /\ nChat = 2
    /\ Len(messages) >= 6
    /\ SubSeq(messages, 1, 2) = <<SystemTurn, UserTurn(email)>>

\* C28: process_email_with_ai sends at most one mail, only when the loop has
\* ended on an assistant answer without tool calls, never while the loop runs;
\* the outcome is 'processed' only if that send succeeded.
C28_SingleSendAfterFinalAnswer ==
    entry = "ai" =>
        /\ Len(sent) <= 1
        /\ pc # "returned" => sent = <<>>
        /\ sent # <<>> =>
              /\ messages # <<>>
              /\ messages[Len(messages)].role = "assistant"
              /\ messages[Len(messages)].tool_calls = <<>>
              /\ handed = messages[Len(messages)].content
        /\ outcome.action = "processed" => (Len(sent) = 1 /\ sent[1].ok)

\* a run that went through a round of tool calls, then sent its one reply
C28_Witness ==
    /\ entry = "ai"
    /\ pc = "returned"
    /\ dispatched # <<>>
    /\ Len(sent) = 1
    /\ sent[1].ok
    /\ outcome.action = "processed"

\* C29: lambda_handler reports auto_reply_sent = true only when
\* reply_to_email_thread was invoked and the mail sender reported success.
C29_AutoReplySentMeansSent ==
    (entry = "lambda" /\ pc = "returned" /\ outcome.action = "200" /\ outcome.auto_reply_sent)
        => \E c \in 1..Len(sent) : sent[c].by = "reply_to_email_thread" /\ sent[c].ok

\* positions of the requests to a service in the trace of one invocation
RequestsTo(service, calls) == {i \in 1..Len(calls) : calls[i] = service}

\* C27: a gateway invocation sends requests to the provider only after it has
\* resolved the owner and then fetched a credential, both within that
\* invocation and both successfully; without a credential it sends none.
C27_FreshCredential ==
    \A d \in 1..Len(dispatched) :
        entry = "gw" =>
            LET calls == dispatched[d].result.calls
                w == dispatched[d].world
            IN /\ RequestsTo("provider", calls) # {}
                    => /\ w.directory = "found"
                       /\ w.credential = "token"
                       /\ Cardinality(RequestsTo("directory", calls)) = 1
                       /\ Cardinality(RequestsTo("credential", calls)) = 1
                       /\ \A p \in RequestsTo("provider", calls) :
                            \E c \in RequestsTo("credential", calls) :
                                /\ c < p
                                /\ \E u \in RequestsTo("directory", calls) : u < c
               /\ w.credential # "token" => RequestsTo("provider", calls) = {}

\* book_event for a known owner with a credential reached the provider
C27_Witness ==
    /\ entry = "gw"
    /\ Len(dispatched) = 1
    /\ dispatched[1].name = "book_event"
    /\ dispatched[1].world = [directory |-> "found", credential |-> "token", provider |-> "ok"]
    /\ dispatched[1].result.calls = <<"directory", "credential", "provider", "provider">>

\* C30: the address send_ai_response_to_thread excludes as the assistant is the
\* address send_email_via_ses uses as Source, with BOOKING_EMAIL set or unset,
\* so the sender is never among the recipients of its own mail.
C30_AssistantIsSender ==
    \A c \in 1..Len(sent) :
        sent[c].by = "send_ai_response_to_thread"
            => /\ AgentBookingEmail(env) = sent[c].source
               /\ \A r \in 1..Len(sent[c].to) :
                    Lower(sent[c].to[r]) # Lower(sent[c].source)

\* the states process_email_with_ai goes through from the locals L when it is
\* the only invocation
RECURSIVE AloneFrom(_, _, _, _)
AloneFrom(L, parsed_email, x, e) ==
    IF L.pc = "returned" THEN {L}
    ELSE {L} \cup AloneFrom(RunStep(L, parsed_email, x, e), parsed_email, x, e)

\* C25: with two invocations interleaved in any way, the locals of each
\* (conversation, dispatches, sends, outcome) are at every moment those of the
\* same invocation run alone on the same external responses; a step of one
\* invocation changes nothing of the other, and what they share is never written.
C25_InvocationsIndependent ==
    /\ [](entry = "pair"
            => \A r \in Runs :
                 LocalOf(r) \in AloneFrom(NewRun, MessageOf(r, env), env.answers[r], env))
    /\ [][entry = "pair"
            => /\ env' = env
               /\ \E r \in Runs : \A q \in Runs \ {r} : LocalOf(q)' = LocalOf(q)]_vars

\* both invocations are in the middle of their batches of tool calls at once
C25_Witness ==
    /\ entry = "pair"
    /\ pc[1] = "executing" /\ tcIdx[1] = 2
    /\ pc[2] = "executing" /\ tcIdx[2] = 2
    /\ Len(messages[1]) = 4
    /\ Len(messages[2]) = 7
    /\ messages[1][2] # messages[2][2]

====
